---- MODULE Spec2Model ----
(***************************************************************************)
(* A model of the rs-tiled map parser (src/src/lib.rs): the tile-id        *)
(* decoding (LayerTile::new), the gid-to-tileset resolution                *)
(* (Map::get_tileset_by_gid) and the recursive-descent parser over the     *)
(* pull-style XML event source (parse_tag!, the entity builders and the    *)
(* tile-data decode pipeline).                                             *)
(*                                                                         *)
(* A u32 is the pair <<hi, lo>> of its two 16-bit halves: TLC's integers   *)
(* are 32-bit signed and cannot hold 2^31.  An i32 is a TLA+ integer.      *)
(***************************************************************************)
EXTENDS Integers, Sequences, FiniteSets, TLC

VARIABLES
    \* ---- Map::get_tileset_by_gid ----
    tilesets,      \* self.tilesets: sequence of first_gid values (u32)
    gid,           \* the target gid (u32)
    gi,            \* position of the `for tileset in self.tilesets.iter()` loop
    maximum_gid,   \* i32
    maximum_ts,    \* Option<&Tileset>: 0 is None, k is Some(&tilesets[k])
    gdone,         \* the function has returned maximum_ts
    \* ---- LayerTile::new ----
    raw,           \* the id passed to LayerTile::new (u32)
    tile,          \* the LayerTile returned, or NoTile before the call
    \* ---- the parser ----
    entry,         \* the entry point called: parse, parse_with_path, parse_tileset
    zstd,          \* whether the crate is built with the "zstd" feature
    open,          \* EventReader: the elements open at the cursor, outermost first
    ended,         \* EventReader: EndDocument has been returned
    nStart,        \* EventReader: StartElement events returned so far
    nText,         \* EventReader: Characters events returned so far
    stack,         \* the call stack: one frame per function that is in a loop
                   \* over parser.next(), innermost last
    result,        \* what the entry point returned, Pending while it runs
    fileOpens,     \* File::open calls made (the storage collaborator)
    raise,         \* history: the last Err a function returned
    last,          \* history: the last event pulled that some reader of the
                   \* crate looks at, by whom, and its handler
    chunkElems,    \* history: the <chunk> elements met under parse_infinite_data
                   \* since the "data" handler last ran, in document order,
                   \* and whether Chunk::new ran
    started,       \* history: for each frame of the stack, the number (in
                   \* document order) of the element whose opening event
                   \* started it; 0 for the frame of the entry point
    encountered,   \* history: the <layer>, <imagelayer> and <objectgroup>
                   \* elements Map::new has met, in document order
    \* ---- one call of a function that reads no events ----
    call,          \* the function called and its arguments
    ret            \* what the call produced, NoRet before it

gidVars  == <<tilesets, gid, gi, maximum_gid, maximum_ts, gdone>>
tileVars == <<raw, tile>>
srcVars  == <<open, ended, nStart, nText>>
parseVars == <<entry, zstd, srcVars, stack, result, fileOpens, raise, last, chunkElems,
               started, encountered>>
callVars == <<call, ret>>
vars     == <<gidVars, tileVars, parseVars, callVars>>

----------------------------------------------------------------------------
(* Bounds *)

\* Longest tileset list handed to get_tileset_by_gid.
MaxTilesets == 3
\* Low 16-bit halves 0..MaxLow and 65535-MaxLow..65535 of the raw tile ids.
MaxLow == 2
\* Most StartElement events of a document.
MaxStarts == 5
\* Deepest nesting of elements in a document.
MaxDepth == 4
\* Most Characters events of a document.
MaxTexts == 2
\* Most whole 4-byte words of a buffer handed to convert_to_tile.
MaxWords == 4
\* Greatest width handed to convert_to_tile and decode_csv.
MaxWidth == 2
\* Most characters of a text handed to decode_csv.
MaxCsvLen == 5
\* Most characters of an enumerated color value handed to PropertyValue::new.
MaxColorLen == 3
\* Longest attribute list handed to get_attrs! on its own.
MaxAttrs == 3

----------------------------------------------------------------------------
(* u32 / i32 arithmetic *)

Half == 2 ^ 16

RECURSIVE BitAnd16(_, _, _)
BitAnd16(a, b, n) ==
    IF n = 0 THEN 0
    ELSE (a % 2) * (b % 2) + 2 * BitAnd16(a \div 2, b \div 2, n - 1)

RECURSIVE BitOr16(_, _, _)
BitOr16(a, b, n) ==
    IF n = 0 THEN 0
    ELSE (IF a % 2 = 1 \/ b % 2 = 1 THEN 1 ELSE 0)
         + 2 * BitOr16(a \div 2, b \div 2, n - 1)

\* x & y
U32And(x, y) == <<BitAnd16(x[1], y[1], 16), BitAnd16(x[2], y[2], 16)>>
\* x | y
U32Or(x, y) == <<BitOr16(x[1], y[1], 16), BitOr16(x[2], y[2], 16)>>
\* !x
U32Not(x) == <<Half - 1 - x[1], Half - 1 - x[2]>>
\* x <= y on u32
U32Le(x, y) == x[1] < y[1] \/ (x[1] = y[1] /\ x[2] <= y[2])
\* x as i32: the two's-complement reading of the same 32 bits
AsI32(x) ==
    IF x[1] >= Half \div 2 THEN (x[1] - Half) * Half + x[2]
    ELSE x[1] * Half + x[2]
\* (b as u32) << n for a flag b, n >= 16
BoolShl(b, n) == IF b THEN <<2 ^ (n - 16), 0>> ELSE <<0, 0>>

----------------------------------------------------------------------------
(* LayerTile::new *)

FLIPPED_HORIZONTALLY_FLAG == <<32768, 0>>   \* 0x80000000
FLIPPED_VERTICALLY_FLAG   == <<16384, 0>>   \* 0x40000000
FLIPPED_DIAGONALLY_FLAG   == <<8192, 0>>    \* 0x20000000
ALL_FLIP_FLAGS ==
    U32Or(FLIPPED_HORIZONTALLY_FLAG,
          U32Or(FLIPPED_VERTICALLY_FLAG, FLIPPED_DIAGONALLY_FLAG))

\* A plausible slip: the mask is never applied to the id.
LayerTileNew_KeepsFlags(id) ==
    LET flags == U32And(id, ALL_FLIP_FLAGS)
    IN  [gid    |-> id,
         flip_h |-> U32And(flags, FLIPPED_HORIZONTALLY_FLAG) = FLIPPED_HORIZONTALLY_FLAG,
         flip_v |-> U32And(flags, FLIPPED_VERTICALLY_FLAG) = FLIPPED_VERTICALLY_FLAG,
         flip_d |-> U32And(flags, FLIPPED_DIAGONALLY_FLAG) = FLIPPED_DIAGONALLY_FLAG]

\* A plausible slip: flip_d is tested against the vertical flag.
LayerTileNew_WrongFlag(id) ==
    LET flags == U32And(id, ALL_FLIP_FLAGS)
    IN  [gid    |-> U32And(id, U32Not(ALL_FLIP_FLAGS)),
         flip_h |-> U32And(flags, FLIPPED_HORIZONTALLY_FLAG) = FLIPPED_HORIZONTALLY_FLAG,
         flip_v |-> U32And(flags, FLIPPED_VERTICALLY_FLAG) = FLIPPED_VERTICALLY_FLAG,
         flip_d |-> U32And(flags, FLIPPED_VERTICALLY_FLAG) = FLIPPED_VERTICALLY_FLAG]

LayerTileNew(id) ==
    LET flags == U32And(id, ALL_FLIP_FLAGS)
        g     == U32And(id, U32Not(ALL_FLIP_FLAGS))
    IN  [gid    |-> g,
         flip_h |-> U32And(flags, FLIPPED_HORIZONTALLY_FLAG) = FLIPPED_HORIZONTALLY_FLAG,
         flip_v |-> U32And(flags, FLIPPED_VERTICALLY_FLAG) = FLIPPED_VERTICALLY_FLAG,
         flip_d |-> U32And(flags, FLIPPED_DIAGONALLY_FLAG) = FLIPPED_DIAGONALLY_FLAG]

NoTile == [gid |-> <<0, 0>>, flip_h |-> FALSE, flip_v |-> FALSE, flip_d |-> FALSE,
           none |-> TRUE]

\* The raw ids tried: every combination of the three top bits, over high
\* halves with the remaining 13 bits clear, mixed and all set, and low halves
\* near 0 and near 0xFFFF.
RawHighs == { t * 8192 + h : t \in 0 .. 7, h \in {0, 1, 4660, 8191} }
RawLows  == (0 .. MaxLow) \cup ((Half - 1 - MaxLow) .. (Half - 1))
RawIds   == { <<h, l>> : h \in RawHighs, l \in RawLows }

TileIdle == raw = <<0, 0>> /\ tile = NoTile

TileInit == raw \in RawIds /\ tile = NoTile

TileNew ==
    /\ tile = NoTile
    /\ tile' = LayerTileNew(raw)
    /\ UNCHANGED <<raw, gidVars, parseVars, callVars>>

----------------------------------------------------------------------------
(* Map::get_tileset_by_gid *)

\* Variant: a scan that also takes a first_gid equal to the running maximum.
Eligible_OrEqual(first_gid, max, g) == AsI32(first_gid) >= max /\ U32Le(first_gid, g)

\* The `if` of the scan: tileset.first_gid as i32 > maximum_gid
\*                       && tileset.first_gid <= gid
Eligible(first_gid, max, g) == AsI32(first_gid) > max /\ U32Le(first_gid, g)

FirstGids == { <<0, 0>>, <<0, 1>>, <<0, 50>>, <<0, 100>>,
               <<32768, 0>>, <<65535, 65535>> }
GidTargets == { <<0, 0>>, <<0, 1>>, <<0, 49>>, <<0, 50>>, <<0, 99>>, <<0, 100>>,
                <<0, 101>>, <<32767, 65535>>, <<32768, 0>>, <<32768, 1>>,
                <<65535, 65535>> }

RECURSIVE SeqsUpTo(_, _)
SeqsUpTo(S, n) ==
    IF n = 0 THEN { <<>> }
    ELSE LET shorter == SeqsUpTo(S, n - 1)
         IN  shorter \cup { Append(s, x) : s \in shorter, x \in S }

GidIdle ==
    /\ tilesets = <<>> /\ gid = <<0, 0>> /\ gi = 1
    /\ maximum_gid = -1 /\ maximum_ts = 0 /\ gdone = TRUE

GidInit ==
    /\ tilesets \in SeqsUpTo(FirstGids, MaxTilesets)
    /\ gid \in GidTargets
    /\ gi = 1
    /\ maximum_gid = -1
    /\ maximum_ts = 0
    /\ gdone = FALSE

\* One iteration of the for loop.
GidScanStep ==
    /\ ~gdone
    /\ gi <= Len(tilesets)
    /\ IF Eligible(tilesets[gi], maximum_gid, gid)
       THEN /\ maximum_gid' = AsI32(tilesets[gi])
            /\ maximum_ts' = gi
       ELSE UNCHANGED <<maximum_gid, maximum_ts>>
    /\ gi' = gi + 1
    /\ UNCHANGED <<tilesets, gid, gdone, tileVars, parseVars, callVars>>

\* The loop is exhausted: return maximum_ts.
GidReturn ==
    /\ ~gdone
    /\ gi > Len(tilesets)
    /\ gdone' = TRUE
    /\ UNCHANGED <<tilesets, gid, gi, maximum_gid, maximum_ts, tileVars, parseVars, callVars>>

----------------------------------------------------------------------------
(* Option and TiledError values; attribute lists *)

None == [some |-> FALSE]
Some(v) == [some |-> TRUE, val |-> v]

\* A TiledError: its variant and the pieces its message is formatted from.
TiledError(variant, msg) == [variant |-> variant, msg |-> msg]

Max(S) == CHOOSE m \in S : \A x \in S : x <= m
Min(S) == CHOOSE x \in S : \A y \in S : x <= y
Min2(a, b) == IF a <= b THEN a ELSE b

\* get_attrs!: an attribute list is a sequence of <<name, value>>.  The one
\* pass assigns `var = conv(value)` at every attribute of that name, so the
\* last attribute of the name decides; with none the variable stays None.
AttrValue(attrs, name) ==
    LET hits == { i \in 1 .. Len(attrs) : attrs[i][1] = name }
    IN  IF hits = {} THEN None ELSE Some(attrs[Max(hits)][2])

GetAttr(attrs, name, Conv(_)) ==
    LET v == AttrValue(attrs, name)
    IN  IF v.some THEN Conv(v.val) ELSE None

\* |v| Some(v)
ConvString(v) == Some(v)
\* The decimal strings the documents use, in order of value.
DecimalStrings == <<"0", "1", "2", "3", "4">>
\* |v: String| v.parse().ok() into u32
ConvU32(v) ==
    IF \E i \in 1 .. Len(DecimalStrings) : DecimalStrings[i] = v
    THEN Some((CHOOSE i \in 1 .. Len(DecimalStrings) : DecimalStrings[i] = v) - 1)
    ELSE None
\* |v: String| v.parse().ok() into i32
ConvI32(v) == IF v = "-1" THEN Some(-1) ELSE ConvU32(v)
\* |v: String| v.parse().ok() into f32
ConvF32(v) == IF v = "0.5" THEN Some(v) ELSE ConvI32(v)
\* |v: String| v.parse().ok().map(|x: i32| x == 1)
ConvVisible(v) ==
    IF ConvI32(v).some THEN Some(ConvI32(v).val = 1) ELSE None
\* |v: String| Some(v == "1")
ConvInfinite(v) == Some(v = "1")
\* Orientation::from_str
ConvOrientation(v) ==
    IF v \in {"orthogonal", "isometric", "staggered", "hexagonal"}
    THEN Some(v) ELSE None
\* Colour::from_str on the colour strings the documents use
ConvColour(v) == IF v \in {"#ff0000", "ff0000"} THEN Some("ff0000") ELSE None

----------------------------------------------------------------------------
(* Character content: strings are sequences of one-character strings *)

IsWhite(c) == c \in {" ", "\t", "\n", "\r"}

\* str::trim
RECURSIVE TrimStart(_)
TrimStart(s) ==
    IF s # <<>> /\ IsWhite(Head(s)) THEN TrimStart(Tail(s)) ELSE s
RECURSIVE TrimEnd(_)
TrimEnd(s) ==
    IF s # <<>> /\ IsWhite(s[Len(s)]) THEN TrimEnd(SubSeq(s, 1, Len(s) - 1)) ELSE s
Trim(s) == TrimEnd(TrimStart(s))

\* s.split(&['\n', '\r', ','][0..]): the tokens between separators, empty
\* tokens included.
RECURSIVE SplitFrom(_, _, _)
SplitFrom(s, cur, acc) ==
    IF s = <<>> THEN Append(acc, cur)
    ELSE IF Head(s) \in {"\n", "\r", ","}
         THEN SplitFrom(Tail(s), <<>>, Append(acc, cur))
         ELSE SplitFrom(Tail(s), Append(cur, Head(s)), acc)
Split(s) == SplitFrom(s, <<>>, <<>>)

Digits == <<"0", "1", "2", "3", "4", "5", "6", "7", "8", "9">>
IsDigit(c) == \E i \in 1 .. 10 : Digits[i] = c
DigitValue(c) == (CHOOSE i \in 1 .. 10 : Digits[i] = c) - 1

\* u32::from_str over the digits: checked multiply by 10 and add, on <<hi, lo>>.
RECURSIVE ParseDigits(_, _)
ParseDigits(s, acc) ==
    IF s = <<>> THEN Some(acc)
    ELSE IF ~IsDigit(Head(s)) THEN None
    ELSE LET lo == acc[2] * 10 + DigitValue(Head(s))
             hi == acc[1] * 10 + lo \div Half
         IN  IF hi >= Half THEN None
             ELSE ParseDigits(Tail(s), <<hi, lo % Half>>)

\* str::parse::<u32>: an optional leading '+', then at least one digit; no
\* white space, no sign alone, no value above u32::MAX.
ParseU32(s) ==
    LET body == IF s # <<>> /\ Head(s) = "+" THEN Tail(s) ELSE s
    IN  IF body = <<>> THEN None ELSE ParseDigits(body, <<0, 0>>)

----------------------------------------------------------------------------
(* get_attrs! as a whole: the pass over the list, the check, the tuple *)

\* An arm of the match: the attribute name and the conversion closure.
Arm(name, conv) == [name |-> name, conv |-> conv]
Convert(conv, v) ==
    CASE conv = "Some(v)"        -> ConvString(v)
      [] conv = "v.parse().ok()" -> ConvU32(v)

\* for attr in $attrs.iter() { match attr.name.local_name.as_ref() { .. } }:
\* the first arm with the name of the attribute assigns its variable; the arms
\* of the optionals come before those of the required.
RECURSIVE GetAttrsPass(_, _, _)
GetAttrsPass(attrs, arms, env) ==
    IF attrs = <<>> THEN env
    ELSE LET hits == { i \in 1 .. Len(arms) : arms[i].name = Head(attrs)[1] }
         IN  GetAttrsPass(Tail(attrs), arms,
                 IF hits = {} THEN env
                 ELSE [env EXCEPT ![Min(hits)] =
                            Convert(arms[Min(hits)].conv, Head(attrs)[2])])

\* Variant: a get_attrs! that wants every variable set, the optionals too.
GetAttrs_OptionalsChecked(attrs, optionals, required, err) ==
    LET arms == optionals \o required
        env  == GetAttrsPass(attrs, arms, [i \in 1 .. Len(arms) |-> None])
    IN  IF \E i \in 1 .. Len(arms) : ~env[i].some
        THEN [kind |-> "err", err |-> err]
        ELSE [kind |-> "ok",
              optionals |-> [i \in 1 .. Len(optionals) |-> env[i]],
              required  |-> [i \in 1 .. Len(required) |-> env[Len(optionals) + i].val]]

\* get_attrs!($attrs, optionals: [..], required: [..], $err)
GetAttrs(attrs, optionals, required, err) ==
    LET arms == optionals \o required
        env  == GetAttrsPass(attrs, arms, [i \in 1 .. Len(arms) |-> None])
    IN  IF \E i \in 1 .. Len(required) : ~env[Len(optionals) + i].some
        THEN [kind |-> "err", err |-> err]
        ELSE [kind |-> "ok",
              optionals |-> [i \in 1 .. Len(optionals) |-> env[i]],
              required  |-> [i \in 1 .. Len(required) |-> env[Len(optionals) + i].val]]

----------------------------------------------------------------------------
(* PropertyValue::new on a value given character by character *)

HexLower == <<"0", "1", "2", "3", "4", "5", "6", "7", "8", "9",
              "a", "b", "c", "d", "e", "f">>
HexUpper == <<"0", "1", "2", "3", "4", "5", "6", "7", "8", "9",
              "A", "B", "C", "D", "E", "F">>
IsHexDigit(c) == \E i \in 1 .. 16 : HexLower[i] = c \/ HexUpper[i] = c
HexValue(c) == (CHOOSE i \in 1 .. 16 : HexLower[i] = c \/ HexUpper[i] = c) - 1

\* The digit loop of u32::from_str_radix(_, 16): checked multiply by 16 and
\* add, on <<hi, lo>>.
RECURSIVE ParseHexDigits(_, _)
ParseHexDigits(s, acc) ==
    IF s = <<>> THEN Some(acc)
    ELSE IF ~IsHexDigit(Head(s)) THEN None
    ELSE LET lo == acc[2] * 16 + HexValue(Head(s))
             hi == acc[1] * 16 + lo \div Half
         IN  IF hi >= Half THEN None
             ELSE ParseHexDigits(Tail(s), <<hi, lo % Half>>)

\* u32::from_str_radix(s, 16): an optional leading '+', then at least one
\* hexadecimal digit of either case; no '-', no value above u32::MAX.
FromStrRadix16(s) ==
    LET body == IF s # <<>> /\ Head(s) = "+" THEN Tail(s) ELSE s
    IN  IF body = <<>> THEN None ELSE ParseHexDigits(body, <<0, 0>>)

\* A character outside ASCII, two bytes long in UTF-8; every other character
\* of the values is one byte long.
EAcute == "U+00E9"
Utf8Len(c) == IF c = EAcute THEN 2 ELSE 1
\* String::len(): the length in bytes
RECURSIVE ByteLen(_)
ByteLen(v) == IF v = <<>> THEN 0 ELSE Utf8Len(Head(v)) + ByteLen(Tail(v))

ImproperColor == TiledError("Other", <<"Improperly formatted color property">>)
UnknownPropertyType(t) == TiledError("Other", <<"Unknown property type \"", t, "\"">>)
ParseError == TiledError("Other", <<"parse error">>)

\* The literals of the scalar types among the values the documents use.
BoolLiterals  == { <<"t", "r", "u", "e">>, <<"f", "a", "l", "s", "e">> }
IntLiterals   == { <<"-", "1">>, <<"0">>, <<"1">> }
FloatLiterals == IntLiterals \cup { <<"0", ".", "5">> }

\* PropertyValue::new(property_type, value).  The "color" arm is guarded by
\* value.len() > 1; a value that fails the guard goes on to the arms below
\* it, of which only `_` matches.  &value[1..] panics when byte 1 is not the
\* start of a character.
PropertyValueNew(t, v) ==
    CASE t = "bool" ->
            IF v \in BoolLiterals
            THEN [kind |-> "ok", variant |-> "BoolValue", val |-> v = <<"t", "r", "u", "e">>]
            ELSE [kind |-> "err", err |-> ParseError]
      [] t = "float" ->
            IF v \in FloatLiterals
            THEN [kind |-> "ok", variant |-> "FloatValue", val |-> v]
            ELSE [kind |-> "err", err |-> ParseError]
      [] t = "int" ->
            IF v \in IntLiterals
            THEN [kind |-> "ok", variant |-> "IntValue", val |-> v]
            ELSE [kind |-> "err", err |-> ParseError]
      [] t = "color" /\ ByteLen(v) > 1 ->
            IF Utf8Len(Head(v)) > 1 THEN [kind |-> "panic"]
            ELSE LET color == FromStrRadix16(Tail(v))
                 IN  IF color.some
                     THEN [kind |-> "ok", variant |-> "ColorValue", val |-> color.val]
                     ELSE [kind |-> "err", err |-> ImproperColor]
      [] t = "string" -> [kind |-> "ok", variant |-> "StringValue", val |-> v]
      [] t = "file"   -> [kind |-> "ok", variant |-> "FileValue", val |-> v]
      [] OTHER        -> [kind |-> "err", err |-> UnknownPropertyType(t)]

----------------------------------------------------------------------------
(* decode_csv: the rows of a Characters event *)

\* .filter(|v| v.trim() != "")
CsvTokens(s) == SelectSeq(Split(s), LAMBDA t : Trim(t) # <<>>)

\* The while loop over the peekable iterator.  peek() parses the next token
\* (`v.parse().unwrap()` panics on a token that is no u32); take(width)
\* parses and collects up to width tokens.  With width = 0 the row is empty,
\* no token is consumed and the loop never ends.
RECURSIVE CsvRows(_, _, _)
CsvRows(toks, width, rows) ==
    IF toks = <<>> THEN [kind |-> "ok", rows |-> rows]
    ELSE IF ~ParseU32(toks[1]).some THEN [kind |-> "panic"]
    ELSE IF width = 0 THEN [kind |-> "hang"]
    ELSE LET n == Min2(width, Len(toks))
         IN  IF \E i \in 1 .. n : ~ParseU32(toks[i]).some
             THEN [kind |-> "panic"]
             ELSE CsvRows(SubSeq(toks, n + 1, Len(toks)), width,
                          Append(rows, [i \in 1 .. n |->
                                          LayerTileNew(ParseU32(toks[i]).val)]))

DecodeCsvText(s, width) == CsvRows(CsvTokens(s), width, <<>>)

----------------------------------------------------------------------------
(* convert_to_tile *)

\* Variant: the four bytes read most significant first.
LeU32_BigEndian(chunk, start) ==
    <<chunk[start + 1] * 256 + chunk[start + 2],
      chunk[start + 3] * 256 + chunk[start + 4]>>

\* The little-endian u32 of chunk[start .. start + 3], start counted from 0.
LeU32(chunk, start) ==
    <<chunk[start + 4] * 256 + chunk[start + 3],
      chunk[start + 2] * 256 + chunk[start + 1]>>

\* for chunk in all.chunks((width * 4) as usize): a row of width tiles, each
\* read at chunk[i * 4 .. i * 4 + 3]; an index past the chunk panics.
RECURSIVE ConvertRows(_, _, _)
ConvertRows(all, width, data) ==
    IF all = <<>> THEN [kind |-> "ok", rows |-> data]
    ELSE LET n     == Min2(width * 4, Len(all))
             chunk == SubSeq(all, 1, n)
         IN  IF \E i \in 0 .. width - 1 : i * 4 + 3 >= Len(chunk)
             THEN [kind |-> "panic"]
             ELSE ConvertRows(SubSeq(all, n + 1, Len(all)), width,
                              Append(data, [i \in 1 .. width |->
                                              LayerTileNew(LeU32(chunk, (i - 1) * 4))]))

\* slice::chunks panics on a chunk size of 0.
ConvertToTile(all, width) ==
    IF width * 4 = 0 THEN [kind |-> "panic"] ELSE ConvertRows(all, width, <<>>)

----------------------------------------------------------------------------
(* Payloads: base64::decode and the libflate / zstd decoders               *)
(*                                                                         *)
(* The codecs are libraries outside this repository.  They are modelled as *)
(* tables over the payloads the documents carry: the base64 texts and the  *)
(* compressed streams below are the real encodings of the eight bytes      *)
(* 01 00 00 00 02 00 00 00 (the tiles 1 and 2); every other input is       *)
(* rejected by the codec.                                                  *)

Bytes12 == <<1, 0, 0, 0, 2, 0, 0, 0>>
Bytes1  == <<1, 0, 0, 0>>
ZlibStream ==
    <<120, 156, 99, 100, 96, 96, 96, 2, 98, 0, 0, 24, 0, 4>>
GzipStream ==
    <<31, 139, 8, 0, 0, 0, 0, 0, 2, 3, 99, 100, 96, 96, 96, 2, 98, 0, 124,
    23, 129, 3, 8, 0, 0, 0>>
ZstdStream ==
    <<40, 181, 47, 253, 32, 8, 65, 0, 0, 1, 0, 0, 0, 2, 0, 0, 0>>

\* "1,\n2"
TextCsv == <<"1", ",", "\n", "2">>
\* "1,x"
TextCsvBad == <<"1", ",", "x">>
\* base64 of Bytes12, with the white space Tiled writes around it
TextB64 ==
    <<"\n", "A", "Q", "A", "A", "A", "A", "I", "A", "A", "A", "A", "=",
    "\n">>
\* base64 of Bytes1
TextB64Short ==
    <<"A", "Q", "A", "A", "A", "A", "=", "=">>
\* base64 of ZlibStream
TextB64Zlib ==
    <<"e", "J", "x", "j", "Z", "G", "B", "g", "Y", "A", "J", "i", "A", "A",
    "A", "Y", "A", "A", "Q", "=">>
\* base64 of GzipStream
TextB64Gzip ==
    <<"H", "4", "s", "I", "A", "A", "A", "A", "A", "A", "A", "C", "A", "2",
    "N", "k", "Y", "G", "B", "g", "A", "m", "I", "A", "f", "B", "e", "B",
    "A", "w", "g", "A", "A", "A", "A", "=">>
\* base64 of ZstdStream
TextB64Zstd ==
    <<"K", "L", "U", "v", "/", "S", "A", "I", "Q", "Q", "A", "A", "A", "Q",
    "A", "A", "A", "A", "I", "A", "A", "A", "A", "=">>

\* base64::decode(s)
Base64Decode(s) ==
    CASE s = <<>>               -> [ok |-> TRUE, bytes |-> <<>>]
      [] s = Trim(TextB64)      -> [ok |-> TRUE, bytes |-> Bytes12]
      [] s = TextB64Short       -> [ok |-> TRUE, bytes |-> Bytes1]
      [] s = TextB64Zlib        -> [ok |-> TRUE, bytes |-> ZlibStream]
      [] s = TextB64Gzip        -> [ok |-> TRUE, bytes |-> GzipStream]
      [] s = TextB64Zstd        -> [ok |-> TRUE, bytes |-> ZstdStream]
      [] OTHER                  -> [ok |-> FALSE, bytes |-> <<>>]

\* decode_zlib / decode_gzip / decode_zstd: Decoder::new and read_to_end
Inflate(codec, bytes) ==
    CASE codec = "zlib" /\ bytes = ZlibStream -> [ok |-> TRUE, bytes |-> Bytes12]
      [] codec = "gzip" /\ bytes = GzipStream -> [ok |-> TRUE, bytes |-> Bytes12]
      [] codec = "zstd" /\ bytes = ZstdStream -> [ok |-> TRUE, bytes |-> Bytes12]
      [] OTHER                                -> [ok |-> FALSE, bytes |-> <<>>]

----------------------------------------------------------------------------
(* The parser: results, call frames, attribute schemas *)

Pending == [kind |-> "Pending"]
Ok(v)   == [kind |-> "Ok", val |-> v]
Err(e)  == [kind |-> "Err", err |-> e]
\* A panic (unwrap on Err, index out of bounds, chunks(0)): the call aborts.
Panic(why) == [kind |-> "Panic", why |-> why]
\* A loop that never ends: the call does not return.
Hang(why) == [kind |-> "Hang", why |-> why]

\* map_path as the entry point passes it to parse_impl.
MapPath == IF entry = "parse_with_path" THEN Some("maps/map.tmx") ELSE None

\* The error values of the builders.
PrematureEndTag == TiledError("PrematureEnd", <<"Document ended before we expected.">>)
PrematureEndMap == TiledError("PrematureEnd", <<"Document ended before map was parsed">>)
PrematureEndTileset ==
    TiledError("PrematureEnd", <<"Tileset Document ended before map was parsed">>)
XmlDecodingError == TiledError("XmlDecodingError", <<"xml error">>)
Base64DecodingError == TiledError("Base64DecodingError", <<"base64 error">>)
DecompressingError == TiledError("DecompressingError", <<"io error">>)
Malformed(what) == TiledError("MalformedAttributes", <<what>>)
NeedsLocation ==
    TiledError("Other",
        <<"Maps with external tilesets must know their file location.  See parse_with_path(Path).">>)
FileNotFound(source) ==
    TiledError("Other", <<"External tileset file not found: ", source>>)

\* LayerData
Finite(rows)     == [variant |-> "Finite", rows |-> rows, chunks |-> <<>>]
Infinite(chunks) == [variant |-> "Infinite", rows |-> <<>>, chunks |-> chunks]

\* HashMap::insert
Insert(f, k, v) == [x \in DOMAIN f \cup {k} |-> IF x = k THEN v ELSE f[x]]

\* The machine after a step: the call stack, the result of the entry point,
\* the number of File::open calls made, and the error raised in the step.
M(st, res, op, ra) == [stack |-> st, result |-> res, opens |-> op, raise |-> ra]
\* What became of an Err on its way up: handed on as it is; dropped by the
\* or_else of Tileset::new, whose new_reference then returned a Tileset; or
\* dropped and replaced by the Err of new_reference.
Same             == [kind |-> "same"]
Recovered(op)    == [kind |-> "recovered", opens |-> op]
Replaced(e2, op) == [kind |-> "replaced", err |-> e2, opens |-> op]
\* History record: a function returned Err(e) after `op` file opens.
Raised(e, op, after) == [some |-> TRUE, err |-> e, opens |-> op, after |-> after]

Front(st) == SubSeq(st, 1, Len(st) - 1)
Last(st)  == st[Len(st)]

\* The functions that run parse_tag!, with the closing tag each waits for.
CloseTag(fn) ==
    CASE fn = "Map::new"                        -> "map"
      [] fn = "Tileset::new_internal"           -> "tileset"
      [] fn = "Tileset::parse_external_tileset" -> "tileset"
      [] fn = "Tile::new"                       -> "tile"
      [] fn = "Image::new"                      -> "image"
      [] fn = "Layer::new"                      -> "layer"
      [] fn = "ImageLayer::new"                 -> "imagelayer"
      [] fn = "ObjectGroup::new"                -> "objectgroup"
      [] fn = "Object::new"                     -> "object"
      [] fn = "parse_properties"                -> "properties"
      [] fn = "parse_animation"                 -> "animation"
      [] fn = "parse_infinite_data"             -> "data"

Dispatchers ==
    { "Map::new", "Tileset::new_internal", "Tileset::parse_external_tileset",
      "Tile::new", "Image::new", "Layer::new", "ImageLayer::new",
      "ObjectGroup::new", "Object::new", "parse_properties", "parse_animation",
      "parse_infinite_data" }

\* The `$open_tag => $open_method` table of each parse_tag! call: the handler
\* run for a nested opening element of that name, "" when none is registered.
HandlerOf(fn, tag) ==
    CASE fn = "Map::new" /\ tag = "tileset"     -> "Tileset::new"
      [] fn = "Map::new" /\ tag = "layer"       -> "Layer::new"
      [] fn = "Map::new" /\ tag = "imagelayer"  -> "ImageLayer::new"
      [] fn = "Map::new" /\ tag = "properties"  -> "parse_properties"
      [] fn = "Map::new" /\ tag = "objectgroup" -> "ObjectGroup::new"
      [] fn \in {"Tileset::new_internal", "Tileset::parse_external_tileset"}
           /\ tag = "image"                     -> "Image::new"
      [] fn \in {"Tileset::new_internal", "Tileset::parse_external_tileset"}
           /\ tag = "properties"                -> "parse_properties"
      [] fn \in {"Tileset::new_internal", "Tileset::parse_external_tileset"}
           /\ tag = "tile"                      -> "Tile::new"
      [] fn = "Tile::new" /\ tag = "image"      -> "Image::new"
      [] fn = "Tile::new" /\ tag = "properties" -> "parse_properties"
      [] fn = "Tile::new" /\ tag = "objectgroup" -> "ObjectGroup::new"
      [] fn = "Tile::new" /\ tag = "animation"  -> "parse_animation"
      [] fn = "Image::new" /\ tag = ""          -> "noop"
      [] fn = "Layer::new" /\ tag = "data"      -> "data"
      [] fn = "Layer::new" /\ tag = "properties" -> "parse_properties"
      [] fn = "ImageLayer::new" /\ tag = "image" -> "Image::new"
      [] fn = "ImageLayer::new" /\ tag = "properties" -> "parse_properties"
      [] fn = "ObjectGroup::new" /\ tag = "object" -> "Object::new"
      [] fn = "ObjectGroup::new" /\ tag = "properties" -> "parse_properties"
      [] fn = "Object::new" /\ tag = "ellipse"  -> "noop"
      [] fn = "Object::new" /\ tag = "polyline" -> "points"
      [] fn = "Object::new" /\ tag = "polygon"  -> "points"
      [] fn = "Object::new" /\ tag = "point"    -> "noop"
      [] fn = "Object::new" /\ tag = "properties" -> "parse_properties"
      [] fn = "parse_properties" /\ tag = "property" -> "property"
      [] fn = "parse_animation" /\ tag = "frame" -> "Frame::new"
      [] fn = "parse_infinite_data" /\ tag = "chunk" -> "Chunk::new"
      [] OTHER -> ""

\* Whether every required attribute of a schema converted to a value.
AllSome(opts) == \A i \in 1 .. Len(opts) : opts[i].some

\* Map::new: the required attributes
MapRequired(attrs) ==
    <<GetAttr(attrs, "version", ConvString),
      GetAttr(attrs, "orientation", ConvOrientation),
      GetAttr(attrs, "width", ConvU32),
      GetAttr(attrs, "height", ConvU32),
      GetAttr(attrs, "tilewidth", ConvU32),
      GetAttr(attrs, "tileheight", ConvU32)>>

\* Tileset::new_internal: the required attributes
TilesetRequired(attrs) ==
    <<GetAttr(attrs, "firstgid", ConvU32),
      GetAttr(attrs, "name", ConvString),
      GetAttr(attrs, "tilewidth", ConvU32),
      GetAttr(attrs, "tileheight", ConvU32),
      GetAttr(attrs, "columns", ConvU32)>>

\* Tileset::parse_external_tileset: the required attributes
ExternalTilesetRequired(attrs) ==
    <<GetAttr(attrs, "name", ConvString),
      GetAttr(attrs, "tilewidth", ConvU32),
      GetAttr(attrs, "tileheight", ConvU32),
      GetAttr(attrs, "columns", ConvU32)>>

\* Tileset::new_reference: the required attributes
ReferenceRequired(attrs) ==
    <<GetAttr(attrs, "firstgid", ConvU32),
      GetAttr(attrs, "source", ConvString)>>

\* Image::new: the required attributes
ImageRequired(attrs) ==
    <<GetAttr(attrs, "source", ConvString),
      GetAttr(attrs, "width", ConvI32),
      GetAttr(attrs, "height", ConvI32)>>

\* Chunk::new: the required attributes
ChunkRequired(attrs) ==
    <<GetAttr(attrs, "x", ConvI32),
      GetAttr(attrs, "y", ConvI32),
      GetAttr(attrs, "width", ConvU32),
      GetAttr(attrs, "height", ConvU32)>>

\* Object::parse_points on the point lists the documents use
ParsePointsOk(s) == s \in {"0,0 1,1", "0,0"}

\* PropertyValue::new on the (type, value) pairs the documents use
PropertyValueOk(t, v) ==
    CASE t = "bool"   -> v \in {"true", "false"}
      [] t = "float"  -> ConvF32(v).some
      [] t = "int"    -> ConvI32(v).some
      [] t = "color"  -> v \in {"#ff0000", "#ffff0000"}
      [] t = "string" -> TRUE
      [] t = "file"   -> TRUE
      [] OTHER        -> FALSE

----------------------------------------------------------------------------
(* The parser: returning, raising and unwinding *)

\* Variant: the "objectgroup" handler of Map::new without its layer_index += 1.
Continue_ObjectGroupKeepsIndex(frame, val) ==
    CASE frame.fn = "Map::new" /\ val.ty = "Tileset" ->
            [frame EXCEPT !.tilesets = Append(@, val)]
      [] frame.fn = "Map::new" /\ val.ty = "Layer" ->
            [frame EXCEPT !.layers = Append(@, val), !.layer_index = @ + 1]
      [] frame.fn = "Map::new" /\ val.ty = "ImageLayer" ->
            [frame EXCEPT !.image_layers = Append(@, val), !.layer_index = @ + 1]
      [] frame.fn = "Map::new" /\ val.ty = "ObjectGroup" ->
            [frame EXCEPT !.object_groups = Append(@, val)]
      [] frame.fn = "Layer::new" /\ val.ty = "LayerData" ->
            [frame EXCEPT !.tiles = val.data]
      [] frame.fn = "parse_infinite_data" /\ val.ty = "Chunk" ->
            [frame EXCEPT !.chunks = Insert(@, <<val.x, val.y>>, val)]
      [] OTHER -> frame

\* The continuation of the handler that called a builder, once the builder
\* has returned Ok(val): what the closure does with the value.  The contents
\* of images, tiles, objects, frames and properties are not followed.
Continue(frame, val) ==
    CASE frame.fn = "Map::new" /\ val.ty = "Tileset" ->
            [frame EXCEPT !.tilesets = Append(@, val)]
      [] frame.fn = "Map::new" /\ val.ty = "Layer" ->
            [frame EXCEPT !.layers = Append(@, val), !.layer_index = @ + 1]
      [] frame.fn = "Map::new" /\ val.ty = "ImageLayer" ->
            [frame EXCEPT !.image_layers = Append(@, val), !.layer_index = @ + 1]
      [] frame.fn = "Map::new" /\ val.ty = "ObjectGroup" ->
            [frame EXCEPT !.object_groups = Append(@, val), !.layer_index = @ + 1]
      [] frame.fn = "Layer::new" /\ val.ty = "LayerData" ->
            [frame EXCEPT !.tiles = val.data]
      [] frame.fn = "parse_infinite_data" /\ val.ty = "Chunk" ->
            [frame EXCEPT !.chunks = Insert(@, <<val.x, val.y>>, val)]
      [] OTHER -> frame

\* The value a builder returns when its parse_tag! loop has ended.
Assemble(frame) ==
    CASE frame.fn = "Map::new" ->
            [ty |-> "Map", width |-> frame.width, infinite |-> frame.infinite,
             tilesets |-> frame.tilesets, layers |-> frame.layers,
             image_layers |-> frame.image_layers,
             object_groups |-> frame.object_groups]
      [] frame.fn \in {"Tileset::new_internal", "Tileset::parse_external_tileset"} ->
            [ty |-> "Tileset", first_gid |-> frame.first_gid, external |-> FALSE]
      [] frame.fn = "Layer::new" ->
            [ty |-> "Layer", layer_index |-> frame.layer_index, tiles |-> frame.tiles]
      [] frame.fn = "ImageLayer::new" ->
            [ty |-> "ImageLayer", layer_index |-> frame.layer_index]
      [] frame.fn = "ObjectGroup::new" ->
            [ty |-> "ObjectGroup", layer_index |-> frame.layer_index]
      [] frame.fn = "parse_infinite_data" ->
            [ty |-> "LayerData", data |-> Infinite(frame.chunks)]
      [] frame.fn = "parse_properties" -> [ty |-> "Properties"]
      [] frame.fn = "parse_animation"  -> [ty |-> "Animation"]
      [] frame.fn = "Image::new"       -> [ty |-> "Image"]
      [] frame.fn = "Tile::new"        -> [ty |-> "Tile"]
      [] frame.fn = "Object::new"      -> [ty |-> "Object"]

\* A callee returns Ok(val) to the frames in st: to the handler of the
\* innermost dispatcher, or, with no caller left, out of the entry point.
Return(st, val, op) ==
    IF st = <<>> THEN M(<<>>, Ok(val), op, None)
    ELSE M([st EXCEPT ![Len(st)] = Continue(st[Len(st)], val)], Pending, op, None)

\* The outcomes of the storage collaborator and of parsing the external
\* tileset document: File::open fails; or it succeeds and
\* Tileset::new_external returns a Tileset or one of its errors.
FsOutcomes == {"notfound", "ok", "premature", "malformed"}

\* Variant: new_reference that opens the source path as given when the map
\* has no file location.
NewReference_OpensWithoutLocation(attrs, path, fs, op) ==
    LET req == ReferenceRequired(attrs)
    IN  IF ~AllSome(req)
        THEN [ok |-> FALSE, opens |-> op,
              err |-> Malformed("tileset must have a firstgid, name, tilewidth, tileheight, and columns with correct types")]
        ELSE IF fs = "ok"
        THEN [ok |-> TRUE, opens |-> op + 1,
              val |-> [ty |-> "Tileset", first_gid |-> req[1].val, external |-> TRUE]]
        ELSE [ok |-> FALSE, opens |-> op + 1, err |-> FileNotFound(req[2].val)]

\* Tileset::new_reference(&attrs, map_path)
NewReference(attrs, path, fs, op) ==
    LET req == ReferenceRequired(attrs)
    IN  IF ~AllSome(req)
        THEN [ok |-> FALSE, opens |-> op,
              err |-> Malformed("tileset must have a firstgid, name, tilewidth, tileheight, and columns with correct types")]
        ELSE IF ~path.some
        THEN [ok |-> FALSE, opens |-> op, err |-> NeedsLocation]
        ELSE CASE fs = "notfound" ->
                    [ok |-> FALSE, opens |-> op + 1, err |-> FileNotFound(req[2].val)]
               [] fs = "premature" ->
                    [ok |-> FALSE, opens |-> op + 1, err |-> PrematureEndTileset]
               [] fs = "malformed" ->
                    [ok |-> FALSE, opens |-> op + 1,
                     err |-> Malformed("tileset must have a firstgid, name, tilewidth, tileheight, and columns with correct types")]
               [] fs = "ok" ->
                    [ok |-> TRUE, opens |-> op + 1,
                     val |-> [ty |-> "Tileset", first_gid |-> req[1].val,
                              external |-> TRUE]]

\* Variant: a parse_tag! whose handlers' errors are dropped and whose loop
\* goes on.
Unwind_HandlerErrorsDropped(st, e, fs, op) ==
    IF st = <<>> THEN M(<<>>, Err(e), op, None) ELSE M(st, Pending, op, None)

\* An error leaves the function on top of st.  Every parse_tag! handler and
\* every `?` hands it to the caller unchanged, except Tileset::new, whose
\* or_else drops the error of new_internal and calls new_reference.
RECURSIVE Unwind(_, _, _, _)
Unwind(st, e, fs, op) ==
    IF st = <<>> THEN M(<<>>, Err(e), op, None)
    ELSE IF Last(st).fn = "Tileset::new_internal"
    THEN LET r == NewReference(Last(st).attrs, MapPath, fs, op)
         IN  IF r.ok
             THEN [Return(Front(st), r.val, r.opens)
                     EXCEPT !.raise = Some(Recovered(r.opens))]
             ELSE [Unwind(Front(st), r.err, fs, r.opens)
                     EXCEPT !.raise = Some(Replaced(r.err, r.opens))]
    ELSE Unwind(Front(st), e, fs, op)

InTileset(st) == \E i \in 1 .. Len(st) : st[i].fn = "Tileset::new_internal"

\* The function on top of st returns Err(e).
Raise(st, e, fs, op) ==
    LET m == Unwind(st, e, fs, op)
    IN  [m EXCEPT !.raise = Raised(e, op, IF m.raise.some THEN m.raise.val ELSE Same)]

Push(st, frame, op) == M(Append(st, frame), Pending, op, None)
Stay(st, op) == M(st, Pending, op, None)

----------------------------------------------------------------------------
(* The tile-data decode pipeline *)

\* Variant: a match that takes the csv route whatever the compression is.
DataLineRoute_CsvIgnoresCompression(e, c) ==
    IF e.some /\ e.val = "csv"
    THEN [ok |-> TRUE, fn |-> "decode_csv", codec |-> "none"]
    ELSE IF e.some /\ e.val = "base64"
    THEN [ok |-> TRUE, fn |-> "parse_base64",
          codec |-> IF c.some THEN c.val ELSE "none"]
    ELSE [ok |-> FALSE, err |-> TiledError("Other", <<"Missing encoding format">>)]

\* The match of parse_data_line on (encoding, compression); an absent
\* attribute is None.  It names the reader to run and the decompressor, or
\* the error.
DataLineRoute(e, c) ==
    IF ~e.some /\ ~c.some
    THEN [ok |-> FALSE,
          err |-> TiledError("Other", <<"XML format is currently not supported">>)]
    ELSE IF e.some /\ ~c.some
    THEN CASE e.val = "base64" -> [ok |-> TRUE, fn |-> "parse_base64", codec |-> "none"]
           [] e.val = "csv"    -> [ok |-> TRUE, fn |-> "decode_csv", codec |-> "none"]
           [] OTHER -> [ok |-> FALSE,
                        err |-> TiledError("Other", <<"Unknown encoding format ", e.val>>)]
    ELSE IF e.some /\ c.some
    THEN CASE e.val = "base64" /\ c.val = "zlib" ->
                [ok |-> TRUE, fn |-> "parse_base64", codec |-> "zlib"]
           [] e.val = "base64" /\ c.val = "gzip" ->
                [ok |-> TRUE, fn |-> "parse_base64", codec |-> "gzip"]
           [] zstd /\ e.val = "base64" /\ c.val = "zstd" ->
                [ok |-> TRUE, fn |-> "parse_base64", codec |-> "zstd"]
           [] OTHER -> [ok |-> FALSE,
                        err |-> TiledError("Other",
                                  <<"Unknown combination of ", e.val,
                                    " encoding and ", c.val, " compression">>)]
    ELSE [ok |-> FALSE, err |-> TiledError("Other", <<"Missing encoding format">>)]

\* parse_data_line, called by `owner` (parse_data or Chunk::new) from the
\* handler of the dispatcher on top of st: start the reader or fail.
ParseDataLine(st, e, c, width, owner, chunk, fs, op) ==
    LET route == DataLineRoute(e, c)
    IN  IF ~route.ok THEN Raise(st, route.err, fs, op)
        ELSE Push(st, [fn |-> route.fn, codec |-> route.codec, width |-> width,
                       owner |-> owner, chunk |-> chunk], op)

NoChunk == [x |-> 0, y |-> 0, width |-> 0, height |-> 0]

\* The reader on top of st has its rows: parse_data wraps them in
\* LayerData::Finite, Chunk::new in a Chunk, and the caller's handler stores it.
ReturnRows(st, rows, op) ==
    LET f == Last(st)
    IN  IF f.owner = "parse_data"
        THEN Return(Front(st), [ty |-> "LayerData", data |-> Finite(rows)], op)
        ELSE Return(Front(st),
                    [ty |-> "Chunk", x |-> f.chunk.x, y |-> f.chunk.y,
                     width |-> f.chunk.width, height |-> f.chunk.height,
                     tiles |-> rows], op)

\* parse_base64 on top of st has returned Ok(bytes):
\* .and_then(decode_*) and .map(|v| convert_to_tile(&v, width)).
AfterBase64(st, bytes, fs, op) ==
    LET f        == Last(st)
        inflated == IF f.codec = "none" THEN [ok |-> TRUE, bytes |-> bytes]
                    ELSE Inflate(f.codec, bytes)
        tiles    == ConvertToTile(inflated.bytes, f.width)
    IN  IF ~inflated.ok THEN Raise(Front(st), DecompressingError, fs, op)
        ELSE IF tiles.kind = "panic"
        THEN M(<<>>, Panic("convert_to_tile"), op, None)
        ELSE ReturnRows(st, tiles.rows, op)

\* decode_csv on top of st has the rows of its Characters event.
AfterCsv(st, out, op) ==
    CASE out.kind = "panic" -> M(<<>>, Panic("decode_csv unwrap"), op, None)
      [] out.kind = "hang"  -> M(<<>>, Hang("decode_csv rows"), op, None)
      [] out.kind = "ok"    -> ReturnRows(st, out.rows, op)

----------------------------------------------------------------------------
(* The parser: the handlers of parse_tag! *)

MalformedTileset ==
    Malformed("tileset must have a firstgid, name tile width and height with correct types")

\* The handler `h` registered for a nested opening element runs with the
\* element's attributes; the dispatcher that pulled the event is on top of st.
\* A builder that passes its get_attrs! starts its own parse_tag! loop (a new
\* frame); one that fails returns the error to the handler, which returns it
\* from the dispatcher's function.
Invoke(h, attrs, st, fs, op) ==
    LET f == Last(st)
    IN  CASE h = "Tileset::new" ->
                \* Tileset::new_internal(..).or_else(|_| Tileset::new_reference(..))
                LET req == TilesetRequired(attrs)
                    frame == [fn |-> "Tileset::new_internal", attrs |-> attrs,
                              first_gid |-> IF req[1].some THEN req[1].val ELSE 0]
                IN  IF AllSome(req) THEN Push(st, frame, op)
                    ELSE Raise(Append(st, frame), MalformedTileset, fs, op)
          [] h = "Layer::new" ->
                IF GetAttr(attrs, "name", ConvString).some
                THEN Push(st, [fn |-> "Layer::new", width |-> f.width,
                               layer_index |-> f.layer_index,
                               infinite |-> f.infinite,
                               tiles |-> Finite(<<>>)], op)
                ELSE Raise(st, Malformed("layer must have a name"), fs, op)
          [] h = "ImageLayer::new" ->
                IF GetAttr(attrs, "name", ConvString).some
                THEN Push(st, [fn |-> "ImageLayer::new",
                               layer_index |-> f.layer_index], op)
                ELSE Raise(st, Malformed("layer must have a name"), fs, op)
          [] h = "ObjectGroup::new" ->
                Push(st, [fn |-> "ObjectGroup::new",
                          layer_index |-> IF f.fn = "Map::new"
                                          THEN Some(f.layer_index) ELSE None], op)
          [] h = "parse_properties" -> Push(st, [fn |-> "parse_properties"], op)
          [] h = "parse_animation"  -> Push(st, [fn |-> "parse_animation"], op)
          [] h = "Image::new" ->
                IF AllSome(ImageRequired(attrs))
                THEN Push(st, [fn |-> "Image::new"], op)
                ELSE Raise(st, Malformed("image must have a source, width and height with correct types"), fs, op)
          [] h = "Tile::new" ->
                IF GetAttr(attrs, "id", ConvU32).some
                THEN Push(st, [fn |-> "Tile::new"], op)
                ELSE Raise(st, Malformed("tile must have an id with the correct type"), fs, op)
          [] h = "Object::new" ->
                IF GetAttr(attrs, "x", ConvF32).some /\ GetAttr(attrs, "y", ConvF32).some
                THEN Push(st, [fn |-> "Object::new"], op)
                ELSE Raise(st, Malformed("objects must have an x and a y number"), fs, op)
          [] h = "data" ->
                \* parse_infinite_data or parse_data, by the map's infinite flag
                LET e == GetAttr(attrs, "encoding", ConvString)
                    c == GetAttr(attrs, "compression", ConvString)
                IN  IF f.infinite
                    THEN Push(st, [fn |-> "parse_infinite_data", encoding |-> e,
                                   compression |-> c, chunks |-> <<>>], op)
                    ELSE ParseDataLine(st, e, c, f.width, "parse_data", NoChunk, fs, op)
          [] h = "Chunk::new" ->
                LET req == ChunkRequired(attrs)
                IN  IF ~AllSome(req)
                    THEN Raise(st, Malformed("layer must have a name"), fs, op)
                    ELSE ParseDataLine(st, f.encoding, f.compression, req[3].val,
                                       "Chunk::new",
                                       [x |-> req[1].val, y |-> req[2].val,
                                        width |-> req[3].val, height |-> req[4].val],
                                       fs, op)
          [] h = "property" ->
                LET t == GetAttr(attrs, "type", ConvString)
                    k == GetAttr(attrs, "name", ConvString)
                    v == GetAttr(attrs, "value", ConvString)
                IN  IF ~(k.some /\ v.some)
                    THEN Raise(st, Malformed("property must have a name and a value"), fs, op)
                    ELSE IF PropertyValueOk(IF t.some THEN t.val ELSE "string", v.val)
                    THEN Stay(st, op)
                    ELSE Raise(st, TiledError("Other", <<"property">>), fs, op)
          [] h = "Frame::new" ->
                IF GetAttr(attrs, "tileid", ConvU32).some
                   /\ GetAttr(attrs, "duration", ConvU32).some
                THEN Stay(st, op)
                ELSE Raise(st, Malformed("A frame must have tileid and duration"), fs, op)
          [] h = "points" ->
                LET s == GetAttr(attrs, "points", ConvString)
                IN  IF s.some /\ ParsePointsOk(s.val) THEN Stay(st, op)
                    ELSE Raise(st, Malformed("points"), fs, op)
          [] h = "noop" -> Stay(st, op)

----------------------------------------------------------------------------
(* The event source: xml::reader::EventReader over one document *)

Ev(type, name, attrs, text) ==
    [type |-> type, name |-> name, attrs |-> attrs, text |-> text]

A(n, v) == <<n, v>>

MapAttrsOfWidth(w) ==
    <<A("version", "1.0"), A("orientation", "orthogonal"), A("width", w),
      A("height", "1"), A("tilewidth", "1"), A("tileheight", "1")>>
MapAttrs == MapAttrsOfWidth("2")
TilesetAttrs ==
    <<A("firstgid", "1"), A("name", "t"), A("tilewidth", "1"),
      A("tileheight", "1"), A("columns", "1")>>
ChunkAttrs(x, w) == <<A("x", x), A("y", "0"), A("width", w), A("height", "1")>>
ImageAttrs == <<A("source", "t.png"), A("width", "1"), A("height", "1")>>

EncodingNames    == {"", "base64", "csv", "json"}
CompressionNames == {"", "zlib", "gzip", "zstd", "lzma"}
OptAttr(n, v) == IF v = "" THEN <<>> ELSE <<A(n, v)>>

\* The attribute lists the documents give an element of each name.
AttrChoices(name) ==
    CASE name = "map" ->
            { MapAttrs, MapAttrsOfWidth("0"), MapAttrs \o <<A("infinite", "1")>>,
              <<A("version", "1.0")>> }
      [] name = "tileset" ->
            { TilesetAttrs,
              <<A("firstgid", "1"), A("source", "t.tsx")>>,
              TilesetAttrs \o <<A("source", "t.tsx")>>,
              <<A("name", "t")>> }
      [] name = "layer"      -> { <<A("name", "l")>>, <<>> }
      [] name = "imagelayer" -> { <<A("name", "i")>>, <<>> }
      [] name = "image"      -> { ImageAttrs, <<A("source", "t.png")>> }
      [] name = "data" ->
            { OptAttr("encoding", e) \o OptAttr("compression", c) :
                e \in EncodingNames, c \in CompressionNames }
      [] name = "chunk" ->
            { ChunkAttrs("0", "2"), ChunkAttrs("0", "1"), ChunkAttrs("1", "1"),
              <<A("x", "0")>> }
      [] OTHER -> { <<>> }

\* The element names the documents nest under an element of each name ("" is
\* the document itself); <foo> stands for any element the format does not know.
ChildNames(parent) ==
    CASE parent = ""           -> {"map", "tileset", "foo"}
      [] parent = "map"        -> {"tileset", "layer", "imagelayer", "objectgroup",
                                   "properties", "foo"}
      [] parent = "foo"        -> {"map", "layer"}
      [] parent = "tileset"    -> {"image"}
      [] parent = "layer"      -> {"data", "layer"}
      [] parent = "data"       -> {"chunk"}
      [] parent = "imagelayer" -> {"image"}
      [] OTHER                 -> {}

Texts == { TextCsv, TextCsvBad, TextB64, TextB64Short, TextB64Zlib,
           TextB64Gzip, TextB64Zstd }
TextParents == {"data", "chunk"}

\* What parser.next() can return next.  The reader yields only well-nested
\* documents: an element closes before its parent, EndDocument follows the
\* close of the root element and is then repeated; anything else the bytes
\* may hold is an Err.  Misc stands for the events no reader of this crate
\* looks at (StartDocument, Whitespace, Comment, CData, ProcessingInstruction).
Events ==
    IF ended THEN { Ev("EndDoc", "", <<>>, <<>>) }
    ELSE LET parent == IF open = <<>> THEN "" ELSE Last(open).name
         IN  (IF nStart < MaxStarts /\ Len(open) < MaxDepth
                 /\ (open # <<>> \/ nStart = 0)
              THEN UNION { { Ev("Start", n, a, <<>>) : a \in AttrChoices(n) } :
                           n \in ChildNames(parent) }
              ELSE {})
             \cup (IF open # <<>> THEN { Ev("End", parent, <<>>, <<>>) } ELSE {})
             \cup (IF open # <<>> /\ nText < MaxTexts /\ parent \in TextParents
                   THEN { Ev("Chars", "", <<>>, t) : t \in Texts } ELSE {})
             \cup (IF open = <<>> /\ nStart > 0
                   THEN { Ev("EndDoc", "", <<>>, <<>>) } ELSE {})
             \cup { Ev("Error", "", <<>>, <<>>), Ev("Misc", "", <<>>, <<>>) }

\* File::open is reached only through Tileset::new.
FsFor(ev) ==
    IF InTileset(stack) \/ (ev.type = "Start" /\ ev.name = "tileset")
    THEN FsOutcomes ELSE {"notfound"}

----------------------------------------------------------------------------
(* The parser: one parser.next() and what its caller does with the event *)

Top == Last(stack)

\* Map::new: get_attrs! and the empty collections
MapNew(attrs) ==
    LET req == MapRequired(attrs)
        inf == GetAttr(attrs, "infinite", ConvInfinite)
    IN  IF ~AllSome(req)
        THEN Raise(<<>>, Malformed("map must have a version, width and height with correct types"),
                   "notfound", fileOpens)
        ELSE M(<<[fn |-> "Map::new", width |-> req[3].val,
                  infinite |-> IF inf.some THEN inf.val ELSE FALSE,
                  tilesets |-> <<>>, layers |-> <<>>, image_layers |-> <<>>,
                  object_groups |-> <<>>, layer_index |-> 0]>>,
               Pending, fileOpens, None)

\* The first_gid the caller of parse_tileset passes.
CallerFirstGid == 1

\* Tileset::parse_external_tileset: get_attrs! and the empty collections
ParseExternalTileset(attrs) ==
    IF ~AllSome(ExternalTilesetRequired(attrs))
    THEN Raise(<<>>, Malformed("tileset must have a firstgid, name, tilewidth, tileheight, and columns with correct types"),
               "notfound", fileOpens)
    ELSE M(<<[fn |-> "Tileset::parse_external_tileset",
              first_gid |-> CallerFirstGid]>>, Pending, fileOpens, None)

\* The loop of parse_impl
OnParseImpl(ev) ==
    CASE ev.type = "Start" /\ ev.name = "map" -> MapNew(ev.attrs)
      [] ev.type = "EndDoc" -> Raise(<<>>, PrematureEndMap, "notfound", fileOpens)
      [] ev.type = "Error"  -> Raise(<<>>, XmlDecodingError, "notfound", fileOpens)
      [] OTHER -> Stay(stack, fileOpens)

\* The loop of Tileset::new_external
OnNewExternal(ev) ==
    CASE ev.type = "Start" /\ ev.name = "tileset" -> ParseExternalTileset(ev.attrs)
      [] ev.type = "EndDoc" -> Raise(<<>>, PrematureEndTileset, "notfound", fileOpens)
      [] ev.type = "Error"  -> Raise(<<>>, XmlDecodingError, "notfound", fileOpens)
      [] OTHER -> Stay(stack, fileOpens)

\* Variant: a parse_tag! that takes EndDocument for the closing tag.
OnDispatch_EndDocumentCloses(ev, fs) ==
    CASE ev.type = "Start" ->
            LET h == HandlerOf(Top.fn, ev.name)
            IN  IF h = "" THEN Stay(stack, fileOpens)
                ELSE Invoke(h, ev.attrs, stack, fs, fileOpens)
      [] ev.type = "End" /\ ev.name = CloseTag(Top.fn) ->
            Return(Front(stack), Assemble(Top), fileOpens)
      [] ev.type = "EndDoc" -> Return(Front(stack), Assemble(Top), fileOpens)
      [] ev.type = "Error"  -> Raise(stack, XmlDecodingError, fs, fileOpens)
      [] OTHER -> Stay(stack, fileOpens)

\* The loop of parse_tag!
OnDispatch(ev, fs) ==
    CASE ev.type = "Start" ->
            LET h == HandlerOf(Top.fn, ev.name)
            IN  IF h = "" THEN Stay(stack, fileOpens)
                ELSE Invoke(h, ev.attrs, stack, fs, fileOpens)
      [] ev.type = "End" ->
            IF ev.name = CloseTag(Top.fn)
            THEN Return(Front(stack), Assemble(Top), fileOpens)
            ELSE Stay(stack, fileOpens)
      [] ev.type = "EndDoc" -> Raise(stack, PrematureEndTag, fs, fileOpens)
      [] ev.type = "Error"  -> Raise(stack, XmlDecodingError, fs, fileOpens)
      [] OTHER -> Stay(stack, fileOpens)

\* The loop of parse_base64
OnBase64(ev, fs) ==
    CASE ev.type = "Chars" ->
            LET d == Base64Decode(Trim(ev.text))
            IN  IF d.ok THEN AfterBase64(stack, d.bytes, fs, fileOpens)
                ELSE Raise(stack, Base64DecodingError, fs, fileOpens)
      [] ev.type = "End" /\ ev.name = "data" -> AfterBase64(stack, <<>>, fs, fileOpens)
      [] ev.type = "Error" -> Raise(stack, XmlDecodingError, fs, fileOpens)
      [] OTHER -> Stay(stack, fileOpens)

\* The loop of decode_csv
OnCsv(ev, fs) ==
    CASE ev.type = "Chars" ->
            AfterCsv(stack, DecodeCsvText(ev.text, Top.width), fileOpens)
      [] ev.type = "End" /\ ev.name = "data" -> ReturnRows(stack, <<>>, fileOpens)
      [] ev.type = "Error" -> Raise(stack, XmlDecodingError, fs, fileOpens)
      [] OTHER -> Stay(stack, fileOpens)

\* The (encoding, compression) a handler passes to parse_data_line: the
\* "data" handler of a finite map through parse_data, the "chunk" handler of
\* parse_infinite_data through Chunk::new once its get_attrs! has passed.
DataLineArgs(h, attrs, f) ==
    CASE h = "data" /\ ~f.infinite ->
            Some([encoding |-> GetAttr(attrs, "encoding", ConvString),
                  compression |-> GetAttr(attrs, "compression", ConvString)])
      [] h = "Chunk::new" /\ AllSome(ChunkRequired(attrs)) ->
            Some([encoding |-> f.encoding, compression |-> f.compression])
      [] OTHER -> None

NoPull == [by |-> "", ev |-> "", name |-> "", handler |-> "", attrs |-> <<>>,
           under |-> FALSE, line |-> None]

\* The event is consumed and the machine moves to m.
Apply(m, ev) ==
    LET h == IF ev.type = "Start" /\ Top.fn \in Dispatchers
             THEN HandlerOf(Top.fn, ev.name) ELSE ""
    IN  /\ stack' = m.stack
        /\ result' = m.result
        /\ fileOpens' = m.opens
        /\ raise' = IF m.raise.some THEN m.raise ELSE raise
        /\ open' = CASE ev.type = "Start" ->
                          Append(open, [name |-> ev.name, id |-> nStart + 1,
                                        ignored |-> Top.fn \in Dispatchers /\ h = ""])
                     [] ev.type = "End" -> Front(open)
                     [] OTHER -> open
        /\ ended' = (ended \/ ev.type = "EndDoc")
        /\ nStart' = IF ev.type = "Start" THEN nStart + 1 ELSE nStart
        /\ nText' = IF ev.type = "Chars" THEN nText + 1 ELSE nText
        /\ last' = IF ev.type = "Misc" THEN last
                   ELSE [by |-> Top.fn, ev |-> ev.type, name |-> ev.name, handler |-> h,
                         attrs |-> IF h = "" THEN <<>> ELSE ev.attrs,
                         under |-> h # "" /\ \E i \in 1 .. Len(open) : open[i].ignored,
                         line |-> DataLineArgs(h, ev.attrs, Top)]
        /\ chunkElems' =
              CASE h = "data" -> <<>>
                [] ev.type = "Start" /\ ev.name = "chunk"
                     /\ open # <<>> /\ Last(open).name = "data"
                     /\ \E i \in DOMAIN stack : stack[i].fn = "parse_infinite_data" ->
                        Append(chunkElems, [attrs |-> ev.attrs,
                                            built |-> h = "Chunk::new"])
                [] OTHER -> chunkElems
        /\ started' = [i \in 1 .. Len(m.stack) |->
                        IF i <= Len(stack)
                           /\ (ev.type # "Start" \/ m.stack[i].fn = stack[i].fn)
                        THEN started[i] ELSE nStart + 1]
        /\ encountered' = IF Top.fn = "Map::new"
                             /\ h \in {"Layer::new", "ImageLayer::new", "ObjectGroup::new"}
                          THEN Append(encountered, ev.name) ELSE encountered
        /\ UNCHANGED <<entry, zstd, gidVars, tileVars, callVars>>

Running == result.kind = "Pending" /\ stack # <<>>

ParseImplStep ==
    /\ Running /\ Top.fn = "parse_impl"
    /\ \E ev \in Events : Apply(OnParseImpl(ev), ev)

NewExternalStep ==
    /\ Running /\ Top.fn = "Tileset::new_external"
    /\ \E ev \in Events : Apply(OnNewExternal(ev), ev)

DispatchStep ==
    /\ Running /\ Top.fn \in Dispatchers
    /\ \E ev \in Events : \E fs \in FsFor(ev) : Apply(OnDispatch(ev, fs), ev)

ParseBase64Step ==
    /\ Running /\ Top.fn = "parse_base64"
    /\ \E ev \in Events : \E fs \in FsFor(ev) : Apply(OnBase64(ev, fs), ev)

DecodeCsvStep ==
    /\ Running /\ Top.fn = "decode_csv"
    /\ \E ev \in Events : \E fs \in FsFor(ev) : Apply(OnCsv(ev, fs), ev)

ParseIdle ==
    /\ entry = "none" /\ zstd = FALSE
    /\ open = <<>> /\ ended = FALSE /\ nStart = 0 /\ nText = 0
    /\ stack = <<>> /\ result = Pending /\ fileOpens = 0
    /\ raise = None /\ last = NoPull /\ encountered = <<>> /\ chunkElems = <<>>
    /\ started = <<>>

\* parse, parse_with_path (and parse_file, which opens the file and passes
\* its path the same way) and parse_tileset, on a fresh EventReader.
ParseInit ==
    /\ entry \in {"parse", "parse_with_path", "parse_tileset"}
    /\ zstd \in BOOLEAN
    /\ open = <<>> /\ ended = FALSE /\ nStart = 0 /\ nText = 0
    /\ stack = <<[fn |-> IF entry = "parse_tileset" THEN "Tileset::new_external"
                         ELSE "parse_impl"]>>
    /\ result = Pending /\ fileOpens = 0
    /\ raise = None /\ last = NoPull /\ encountered = <<>> /\ chunkElems = <<>>
    /\ started = <<0>>

----------------------------------------------------------------------------
(* Single calls of the functions that read no events *)

NoCall == [fn |-> ""]
NoRet  == [kind |-> "none"]

CallsIdle == call = NoCall /\ ret = NoRet

\* The 4-byte groups of the buffers: 1, 2, and 2 with all three flip flags.
Words == { <<1, 0, 0, 0>>, <<2, 0, 0, 0>>, <<2, 0, 0, 224>> }
\* The bytes after the last whole word.
Tails == { <<>>, <<7>>, <<7, 0>>, <<7, 0, 0>> }
RECURSIVE Flatten(_)
Flatten(ws) == IF ws = <<>> THEN <<>> ELSE ws[1] \o Flatten(Tail(ws))
Buffers == { Flatten(ws) \o t : ws \in SeqsUpTo(Words, MaxWords), t \in Tails }

ConvertToTileInit ==
    /\ call \in { [fn |-> "convert_to_tile", all |-> b, width |-> w] :
                    b \in Buffers, w \in 0 .. MaxWidth }
    /\ ret = NoRet

\* convert_to_tile(&all, width)
ConvertToTileCall ==
    /\ call.fn = "convert_to_tile" /\ ret = NoRet
    /\ ret' = ConvertToTile(call.all, call.width)
    /\ UNCHANGED <<call, gidVars, tileVars, parseVars>>

\* The characters of the CSV texts: two digits, the three separators, a
\* blank and a letter.
CsvChars == {"1", "2", ",", "\n", "\r", " ", "x"}

DecodeCsvInit ==
    /\ call \in { [fn |-> "decode_csv", s |-> t, width |-> w] :
                    t \in SeqsUpTo(CsvChars, MaxCsvLen), w \in 0 .. MaxWidth }
    /\ ret = NoRet

\* The XmlEvent::Characters(s) arm of decode_csv(width, parser)
DecodeCsvCharacters ==
    /\ call.fn = "decode_csv" /\ ret = NoRet
    /\ ret' = DecodeCsvText(call.s, call.width)
    /\ UNCHANGED <<call, gidVars, tileVars, parseVars>>

\* The characters of the enumerated color values.
ColorChars == {"#", "f", "0", "g", "+", "-", EAcute}
\* Longer values: six and eight digits, upper case, nine digits.
LongColors ==
    { <<"#", "f", "f", "0", "0", "0", "0">>,
      <<"#", "F", "F", "0", "0", "0", "0">>,
      <<"#", "f", "f", "f", "f", "f", "f", "f", "f">>,
      <<"#", "1", "0", "0", "0", "0", "0", "0", "0", "0">> }
\* Values of the other property types: literals of the scalar types and
\* texts that are none.
OtherValues ==
    BoolLiterals \cup FloatLiterals \cup { <<"1">>, <<"a", "b", "c">>, <<>> }
PropertyTypes == {"bool", "float", "int", "string", "file", "colour"}

PropertyValueNewInit ==
    /\ call \in { [fn |-> "PropertyValue::new", property_type |-> "color", value |-> v] :
                    v \in SeqsUpTo(ColorChars, MaxColorLen) \cup LongColors }
               \cup { [fn |-> "PropertyValue::new", property_type |-> t, value |-> v] :
                         t \in PropertyTypes, v \in OtherValues }
    /\ ret = NoRet

\* PropertyValue::new(property_type, value)
PropertyValueNewCall ==
    /\ call.fn = "PropertyValue::new" /\ ret = NoRet
    /\ ret' = PropertyValueNew(call.property_type, call.value)
    /\ UNCHANGED <<call, gidVars, tileVars, parseVars>>

\* The attributes of the lists: the names of the three arms and one no arm
\* has, each with a value that is a number and one that is not.
AttrPairs == {"o", "a", "b", "z"} \X {"1", "x"}
\* The invocations: one optional and two required arms, as most builders
\* have; optionals only, as parse_infinite_data has.
Schemas ==
    { [optionals |-> <<Arm("o", "v.parse().ok()")>>,
       required  |-> <<Arm("a", "v.parse().ok()"), Arm("b", "Some(v)")>>],
      [optionals |-> <<Arm("o", "v.parse().ok()"), Arm("b", "Some(v)")>>,
       required  |-> <<>>] }

GetAttrsInit ==
    /\ call \in { [fn |-> "get_attrs!", attrs |-> a, optionals |-> sc.optionals,
                    required |-> sc.required, err |-> Malformed("caller's message")] :
                    a \in SeqsUpTo(AttrPairs, MaxAttrs), sc \in Schemas }
    /\ ret = NoRet

\* One expansion of get_attrs!
GetAttrsCall ==
    /\ call.fn = "get_attrs!" /\ ret = NoRet
    /\ ret' = GetAttrs(call.attrs, call.optionals, call.required, call.err)
    /\ UNCHANGED <<call, gidVars, tileVars, parseVars>>

----------------------------------------------------------------------------
(* Claims about LayerTile::new and Map::get_tileset_by_gid *)

\* C1: when get_tileset_by_gid has returned, the tileset returned is one whose
\* first_gid is the greatest first_gid <= gid, and None is returned exactly
\* when gid is smaller than every tileset's first_gid.
C1_GreatestFirstGidNotAbove ==
    gdone =>
        LET owners == { k \in 1 .. Len(tilesets) : U32Le(tilesets[k], gid) }
        IN  /\ (maximum_ts = 0) <=> (owners = {})
            /\ maximum_ts # 0 =>
                 /\ maximum_ts \in owners
                 /\ \A k \in owners : U32Le(tilesets[k], tilesets[maximum_ts])

\* The same statement for tileset lists whose first_gids are all below 2^31.
GreatestFirstGidBelowSignBit ==
    (\A k \in 1 .. Len(tilesets) : tilesets[k][1] < Half \div 2)
        => C1_GreatestFirstGidNotAbove

\* C2: for every raw id, LayerTile::new sets flip_h iff bit 31 is set, flip_v
\* iff bit 30 is set, flip_d iff bit 29 is set, and gid is raw with bits
\* 29..31 cleared, so that gid has none of the three flip bits.
C2_FlipBitsExtracted ==
    tile # NoTile =>
        /\ tile.flip_h = (raw[1] >= 32768)
        /\ tile.flip_v = ((raw[1] \div 16384) % 2 = 1)
        /\ tile.flip_d = ((raw[1] \div 8192) % 2 = 1)
        /\ tile.gid = <<raw[1] % 8192, raw[2]>>
        /\ tile.gid[1] < 8192

C2_Witness ==
    /\ tile # NoTile
    /\ raw[1] >= 57344
    /\ tile.flip_h /\ tile.flip_v /\ tile.flip_d
    /\ tile.gid[1] # 0 /\ tile.gid[2] # 0

\* C3: flip-bit extraction is lossless:
\* gid | (flip_h << 31) | (flip_v << 30) | (flip_d << 29) = raw.
C3_RecomposeGivesRaw ==
    tile # NoTile =>
        U32Or(U32Or(U32Or(tile.gid, BoolShl(tile.flip_h, 31)),
                    BoolShl(tile.flip_v, 30)),
              BoolShl(tile.flip_d, 29)) = raw

C3_Witness ==
    /\ tile # NoTile
    /\ tile.flip_d /\ ~tile.flip_v /\ tile.flip_h
    /\ tile.gid # <<0, 0>>

\* C16 as the specification words it: of the tilesets that share the
\* first_gid of the one returned, the one returned comes last in the list.
C16_LaterDuplicateWins ==
    (gdone /\ maximum_ts # 0) =>
        \A j \in 1 .. Len(tilesets) :
            tilesets[j] = tilesets[maximum_ts] => j <= maximum_ts

\* C16: of the tilesets that share the first_gid of the one returned, the one
\* returned comes first in the list: a later tileset replaces the running
\* maximum only with a strictly greater first_gid.
C16_EarlierDuplicateWins ==
    maximum_ts # 0 =>
        \A j \in 1 .. Len(tilesets) :
            tilesets[j] = tilesets[maximum_ts] => maximum_ts <= j

\* Two tilesets share the greatest first_gid not above the gid, and the scan
\* has returned the first of them.
C16_Witness ==
    /\ gdone /\ Len(tilesets) = 3
    /\ tilesets[2] = tilesets[3] /\ tilesets[1] # tilesets[2]
    /\ U32Le(tilesets[1], tilesets[2]) /\ U32Le(tilesets[2], gid)
    /\ maximum_ts = 2

\* C22: when get_tileset_by_gid has returned, every tileset whose first_gid
\* is 2^31 or more and not above the gid is covered by the answer: a tileset
\* is returned, and its first_gid is not above the gid and not below that
\* tileset's first_gid.
C22_HighFirstGidsResolved ==
    gdone =>
        \A k \in 1 .. Len(tilesets) :
            (tilesets[k][1] >= Half \div 2 /\ U32Le(tilesets[k], gid))
                => /\ maximum_ts # 0
                   /\ U32Le(tilesets[maximum_ts], gid)
                   /\ U32Le(tilesets[k], tilesets[maximum_ts])

----------------------------------------------------------------------------
(* Claims about the parser *)

Returned(ty) == result.kind = "Ok" /\ result.val.ty = ty

\* The (list, position) pairs of the entities of a map.
Entities(m) ==
    ({"layer"} \X DOMAIN m.layers) \cup ({"imagelayer"} \X DOMAIN m.image_layers)
        \cup ({"objectgroup"} \X DOMAIN m.object_groups)
EntityList(m, kind) ==
    CASE kind = "layer"       -> m.layers
      [] kind = "imagelayer"  -> m.image_layers
      [] kind = "objectgroup" -> m.object_groups
\* layer_index is a u32 in Layer and ImageLayer, an Option<u32> in ObjectGroup.
IndexOf(m, en) ==
    LET li == EntityList(m, en[1])[en[2]].layer_index
    IN  IF en[1] = "objectgroup" THEN li ELSE Some(li)
Increasing(list, Ix(_)) ==
    \A i, j \in DOMAIN list : i < j => Ix(list[i]) < Ix(list[j])

\* C4: in a Map that parse returned, the k-th <layer>, <imagelayer> or
\* <objectgroup> element Map::new met (k counted from 0) is the one entity
\* whose layer_index is k, it sits in the list of its own kind, each list
\* keeps document order, and there is no other entity: the indices are
\* exactly 0 .. n-1 across the three lists.
C4_LayerIndexIsEncounterOrder ==
    Returned("Map") =>
        LET m == result.val
        IN  /\ Cardinality(Entities(m)) = Len(encountered)
            /\ \A k \in 1 .. Len(encountered) :
                    /\ Cardinality({ en \in Entities(m) : IndexOf(m, en) = Some(k - 1) }) = 1
                    /\ \E en \in Entities(m) :
                          IndexOf(m, en) = Some(k - 1) /\ en[1] = encountered[k]
            /\ Increasing(m.layers, LAMBDA x : x.layer_index)
            /\ Increasing(m.image_layers, LAMBDA x : x.layer_index)
            /\ Increasing(m.object_groups, LAMBDA x : x.layer_index.val)

\* A map with a layer, an object group and an image layer, in an order in
\* which the object group is not the last.
C4_Witness ==
    /\ Returned("Map")
    /\ Len(encountered) = 3
    /\ encountered[1] = "layer"
    /\ encountered[2] = "objectgroup"
    /\ encountered[3] = "imagelayer"

\* C5 as the specification words it: whenever a function has returned an
\* error, the entry point has returned that same error and no file has been
\* opened since.
C5_EveryErrorReachesTheCaller ==
    raise.some => result = Err(raise.err) /\ fileOpens = raise.opens

\* C5: an error returned outside Tileset::new_internal is what the entry point
\* returns, at once: no frame is left, no file is opened after it.  An error
\* returned by Tileset::new_internal or under it is dropped by Tileset::new,
\* which calls Tileset::new_reference on the same attributes: either that
\* returns a Tileset, or its error is what the entry point returns.
C5_ErrorsPropagateExceptThroughTilesetNew ==
    raise.some =>
        CASE raise.after.kind = "same" ->
                result = Err(raise.err) /\ stack = <<>> /\ fileOpens = raise.opens
          [] raise.after.kind = "replaced" ->
                /\ result = Err(raise.after.err) /\ stack = <<>>
                /\ fileOpens = raise.after.opens
          [] raise.after.kind = "recovered" ->
                fileOpens >= raise.after.opens /\ raise.after.opens = raise.opens + 1

\* The error of the decode pipeline, raised under Layer::new under Map::new,
\* is the result of the parse.
C5_Witness ==
    /\ raise.some /\ raise.after.kind = "same"
    /\ last.by = "Layer::new" /\ last.line.some
    /\ result = Err(raise.err)

ReferenceOnly(attrs) ==
    /\ Len(attrs) = 2
    /\ { attrs[i][1] : i \in 1 .. 2 } = {"firstgid", "source"}

\* C6: under parse (map_path = None), when Map::new has handed a <tileset>
\* that carries just firstgid and source to Tileset::new, the parse has failed
\* with the error that the map must know its file location, and File::open
\* has not been called.
C6_ReferenceWithoutLocationFails ==
    (entry = "parse" /\ last.handler = "Tileset::new" /\ ReferenceOnly(last.attrs))
        => result = Err(NeedsLocation) /\ fileOpens = 0

C6_Witness ==
    /\ entry = "parse" /\ last.handler = "Tileset::new" /\ ReferenceOnly(last.attrs)
    /\ result = Err(NeedsLocation)
    /\ fileOpens = 0

\* C7: a parse call never aborts on a CSV payload with a token that is no
\* u32: it returns a value or an error.
C7_BadCsvTokenIsAnError ==
    ~(result.kind = "Panic" /\ result.why = "decode_csv unwrap")

\* C8: no registered handler is invoked for an element that lies under an
\* element the dispatcher did not recognize.
C8_NoHandlerUnderUnrecognized == ~last.under

PullsForTag == Dispatchers \cup {"parse_impl", "Tileset::new_external"}

\* C9: when parse_tag!, parse_impl or Tileset::new_external has pulled
\* EndDocument, it has returned a PrematureEnd error, and that error is the
\* result of the call.
C9_EndDocumentIsPrematureEnd ==
    (last.ev = "EndDoc" /\ last.by \in PullsForTag) =>
        /\ raise.some /\ raise.err.variant = "PrematureEnd"
        /\ result = Err(raise.err)
        /\ stack = <<>>

\* parse_tag! itself meets the end of the document.
C9_Witness ==
    /\ last.ev = "EndDoc" /\ last.by \in Dispatchers
    /\ result = Err(PrematureEndTag)

\* The rows of the matrix that decode.
InTable(e, c) ==
    \/ /\ e = Some("base64")
       /\ \/ ~c.some
          \/ c.val \in {"zlib", "gzip"}
          \/ c.val = "zstd" /\ zstd
    \/ e = Some("csv") /\ ~c.some
Names(err, o) == o.some => \E i \in 1 .. Len(err.msg) : err.msg[i] = o.val
Readers == {"parse_base64", "decode_csv"}
\* parse_data_line was called in the last step with a pair outside the table.
RejectedPair ==
    /\ last.line.some
    /\ ~InTable(last.line.val.encoding, last.line.val.compression)

\* C10 as the specification words it: a pair outside the table other than
\* (absent, absent) fails with an Other error that names its encoding and
\* compression strings.
C10_ErrorNamesOffendingStrings ==
    (RejectedPair /\ (last.line.val.encoding.some \/ last.line.val.compression.some)) =>
        /\ result.kind = "Err" /\ result.err.variant = "Other"
        /\ Names(result.err, last.line.val.encoding)
        /\ Names(result.err, last.line.val.compression)

\* C10: parse_data_line starts a reader only for the pairs of the table; every
\* other pair fails with an Other error, which names the encoding and the
\* compression strings if the encoding is present; with the encoding absent
\* and a compression present it is "Missing encoding format" and names neither.
C10_MatrixIsExhaustive ==
    last.line.some =>
        LET e == last.line.val.encoding
            c == last.line.val.compression
        IN  IF InTable(e, c)
            THEN result.kind = "Pending" /\ Top.fn \in Readers
            ELSE /\ result.kind = "Err" /\ result.err.variant = "Other"
                 /\ stack = <<>>
                 /\ e.some => Names(result.err, e) /\ Names(result.err, c)
                 /\ (~e.some /\ c.some) =>
                        result.err.msg = <<"Missing encoding format">>

\* csv with a compression is turned down, and the error names both.
C10_Witness ==
    /\ RejectedPair
    /\ last.line.val.encoding = Some("csv")
    /\ last.line.val.compression = Some("zlib")
    /\ result = Err(TiledError("Other", <<"Unknown combination of ", "csv",
                                          " encoding and ", "zlib", " compression">>))

\* parse_infinite_data has met </data> in the last step and returned its
\* mapping to the "data" handler of Layer::new, which stored it.
InfiniteDataReturned ==
    /\ last.by = "parse_infinite_data" /\ last.ev = "End" /\ last.name = "data"
    /\ result.kind = "Pending" /\ Top.fn = "Layer::new"
    /\ Top.tiles.variant = "Infinite"

Origin(el) ==
    <<GetAttr(el.attrs, "x", ConvI32).val, GetAttr(el.attrs, "y", ConvI32).val>>

\* Every chunk of the mapping is stored under its own origin, and where
\* elements of `elems` have that origin it has the size of the last of them.
LastChunkWins(chunks, elems) ==
    \A k \in DOMAIN chunks :
        LET same == { j \in DOMAIN elems : Origin(elems[j]) = k }
        IN  /\ <<chunks[k].x, chunks[k].y>> = k
            /\ same # {} =>
                  LET i == Max(same)
                  IN  /\ chunks[k].width = GetAttr(elems[i].attrs, "width", ConvU32).val
                      /\ chunks[k].height = GetAttr(elems[i].attrs, "height", ConvU32).val

\* C13: every chunk of the mapping parse_infinite_data returns is stored
\* under its own origin, and for an origin that several <chunk> elements of
\* the document share it is the last of them.
C13_LastChunkElementWins ==
    InfiniteDataReturned =>
        LastChunkWins(Top.tiles.chunks,
                      SelectSeq(chunkElems, LAMBDA el : AllSome(ChunkRequired(el.attrs))))

\* The same for the <chunk> elements that were handed to Chunk::new, which
\* are all the origins of the mapping.
LastBuiltChunkWins ==
    InfiniteDataReturned =>
        LET built == SelectSeq(chunkElems, LAMBDA el : el.built)
        IN  /\ LastChunkWins(Top.tiles.chunks, built)
            /\ DOMAIN Top.tiles.chunks = { Origin(built[i]) : i \in DOMAIN built }

\* Two chunks of one origin and different widths were built.
TwoChunksOfOneOriginBuilt ==
    /\ InfiniteDataReturned
    /\ Len(chunkElems) = 2
    /\ chunkElems[1].built /\ chunkElems[2].built
    /\ Origin(chunkElems[1]) = Origin(chunkElems[2])
    /\ chunkElems[1].attrs # chunkElems[2].attrs

\* The parse is inside an infinite map, where every reader of the decode
\* pipeline is started by Chunk::new for one <chunk> element.
InInfiniteMap ==
    /\ result.kind = "Pending" /\ stack # <<>>
    /\ stack[1].fn = "Map::new" /\ stack[1].infinite

\* C18: the reader started for a chunk consumes neither the closing event of
\* the enclosing <data> element nor the character content of a following
\* chunk (one that Chunk::new was never called for).
C18_ChunkReaderStaysInItsChunk ==
    (InInfiniteMap /\ last.by \in Readers) =>
        /\ ~(last.ev = "End" /\ last.name = "data")
        /\ ~(last.ev = "Chars" /\ chunkElems # <<>> /\ ~Last(chunkElems).built)

\* The reader of an empty chunk has taken the text of the chunk after it.
ChunkTextTakenByEarlierChunk ==
    /\ InInfiniteMap /\ last.by \in Readers
    /\ last.ev = "Chars" /\ Len(chunkElems) = 2
    /\ chunkElems[1].built /\ ~chunkElems[2].built
    /\ Top.fn = "parse_infinite_data"
    /\ DOMAIN Top.chunks = {Origin(chunkElems[1])}
    /\ Top.chunks[Origin(chunkElems[1])].tiles # <<>>

\* The step in which the or_else of Tileset::new ran: new_internal returned an
\* error and new_reference was called on the attributes of the same element.
ReferenceAttempted ==
    /\ raise' # raise
    /\ raise'.some /\ raise'.after.kind \in {"recovered", "replaced"}

\* C20: Tileset::new_reference is attempted only in the step that hands
\* Tileset::new a <tileset> whose attributes fail the embedded schema
\* (firstgid, name, tilewidth, tileheight, columns); once those attributes
\* are accepted, no error of a child of the tileset leads to new_reference
\* and no file is opened for that tileset.
C20_ReferenceOnlyWhenEmbeddedSchemaFails ==
    [][(ReferenceAttempted \/ fileOpens' > fileOpens)
          => /\ last'.handler = "Tileset::new"
             /\ ~AllSome(TilesetRequired(last'.attrs))]_vars

\* The step in which the dispatcher on top of the stack pulled a closing
\* event and ended normally: parse_tag! took its `break` and the function
\* returned to its caller.
DispatcherEnded ==
    /\ stack # <<>> /\ Top.fn \in Dispatchers
    /\ Len(open') < Len(open)
    /\ Len(stack') < Len(stack)
    /\ result'.kind \in {"Pending", "Ok"}

\* C21: a dispatcher ends normally only at the closing event of the element
\* whose opening event started it: not at the closing event of a descendant
\* that has the same name.
C21_DispatcherEndsAtItsOwnClose ==
    [][DispatcherEnded => Last(open).id = started[Len(stack)]]_vars

\* The variant of LayerData that goes with the map's infinite flag.
VariantOf(infinite) == IF infinite THEN "Infinite" ELSE "Finite"

\* C23: in a Map that parse returned, the tiles of every Layer are the
\* Infinite variant if the map is infinite and the Finite variant if it is
\* not, whatever the <layer> element held.
C23_LayerVariantMatchesMapKind ==
    Returned("Map") =>
        \A i \in DOMAIN result.val.layers :
            result.val.layers[i].tiles.variant = VariantOf(result.val.infinite)

\* The same for the layers whose <data> element was handed to the handler
\* of Layer::new: the variant is that of the last one handled.
LayerVariantMatchesWhenDataHandled ==
    (/\ result.kind = "Pending" /\ stack # <<>> /\ Top.fn = "Layer::new"
     /\ last.by \in {"parse_data", "parse_infinite_data", "parse_base64", "decode_csv"})
        => Top.tiles.variant = VariantOf(Top.infinite)

\* C19: the parser never enters a loop that has no exit: neither the row
\* loop of decode_csv nor a reader of the decode pipeline goes on forever.
C19_NoLoopWithoutExit == result.kind # "Hang"

\* The same as a property of whole runs: every parse call ends, with a
\* value, an error or an abort.
ParseCallEnds == <>(result.kind \in {"Ok", "Err", "Panic"})

----------------------------------------------------------------------------
(* Claims about the functions that read no events *)

Called(fn) == call.fn = fn /\ ret.kind # "none"

\* The four bytes of `all` at byte offset off (counted from 0), little-endian.
WordAt(all, off) ==
    <<all[off + 4] * 256 + all[off + 3], all[off + 2] * 256 + all[off + 1]>>

CsvSeparators == {"\n", "\r", ","}
\* The pieces of s between separators: <<first, last>> positions, in order of
\* first; a piece may be empty (last = first - 1).
CsvPieces(s) ==
    LET IsSep(i) == i = 0 \/ i = Len(s) + 1 \/ s[i] \in CsvSeparators
    IN  { <<i, j>> \in (1 .. Len(s) + 1) \X (0 .. Len(s)) :
            /\ i <= j + 1
            /\ IsSep(i - 1) /\ IsSep(j + 1)
            /\ \A k \in i .. j : ~IsSep(k) }
IsBlankPiece(s, pc) == \A k \in pc[1] .. pc[2] : s[k] = " "
\* The k-th piece of s that is not blank.
Token(s, k) ==
    LET kept == { pc \in CsvPieces(s) : ~IsBlankPiece(s, pc) }
        pc   == CHOOSE q \in kept : Cardinality({ o \in kept : o[1] < q[1] }) = k - 1
    IN  SubSeq(s, pc[1], pc[2])
TokenCount(s) == Cardinality({ pc \in CsvPieces(s) : ~IsBlankPiece(s, pc) })

\* The rows the specification describes for the tokens of call.s.
CsvRowsAsSpecified ==
    LET n == TokenCount(call.s)
        w == call.width
    IN  /\ ret.kind = "ok"
        /\ Len(ret.rows) = (n + w - 1) \div w
        /\ \A r \in 1 .. Len(ret.rows) :
              /\ Len(ret.rows[r]) = Min2(w, n - (r - 1) * w)
              /\ \A c \in 1 .. Len(ret.rows[r]) :
                    LET tok == Token(call.s, (r - 1) * w + c)
                    IN  /\ ParseU32(tok).some
                        /\ ret.rows[r][c] = LayerTileNew(ParseU32(tok).val)

\* C12: for width >= 1 the Characters arm of decode_csv splits the text on
\* newline, carriage return and comma, drops the blank pieces, turns every
\* other piece into one LayerTile in order, and groups the tiles into rows of
\* width, the last row holding what is left.
C12_CsvRowsOfEveryText ==
    (Called("decode_csv") /\ call.width >= 1) => CsvRowsAsSpecified

\* The same for the texts whose pieces are all blank or all digits.
CsvRowsOfDigitTexts ==
    (/\ Called("decode_csv") /\ call.width >= 1
     /\ \A k \in 1 .. TokenCount(call.s) :
           \A i \in 1 .. Len(Token(call.s, k)) : Token(call.s, k)[i] \in {"1", "2"})
        => CsvRowsAsSpecified

\* A full row followed by a short one.
CsvShortRowReached ==
    /\ Called("decode_csv") /\ call.width = 2
    /\ call.s = <<"1", ",", "2", "\n", "1">>
    /\ ret.kind = "ok" /\ Len(ret.rows) = 2 /\ Len(ret.rows[2]) = 1

ColorCalled == Called("PropertyValue::new") /\ call.property_type = "color"

\* C14: with the declared type "color", a raw value of at most one character
\* fails with the "improperly formatted color property" error.
C14_ShortColorIsImproperlyFormatted ==
    (ColorCalled /\ Len(call.value) <= 1) =>
        ret = [kind |-> "err", err |-> ImproperColor]

\* With the declared type "color", a raw value of more than one character
\* that starts with a one-byte character gives ColorValue of the hexadecimal
\* number after that character, a leading '+' allowed, and the "improperly
\* formatted color property" error when there is no such number in 32 bits.
ColorOfLongerValues ==
    (ColorCalled /\ Len(call.value) > 1 /\ Head(call.value) # EAcute) =>
        LET rest   == Tail(call.value)
            digits == IF Head(rest) = "+" THEN Tail(rest) ELSE rest
            nonzero == { i \in 1 .. Len(digits) : digits[i] # "0" }
            valid  == /\ digits # <<>>
                      /\ \A i \in 1 .. Len(digits) : IsHexDigit(digits[i])
                      /\ nonzero # {} => Len(digits) - Min(nonzero) < 8
        IN  IF valid
            THEN /\ ret.kind = "ok" /\ ret.variant = "ColorValue"
                 /\ ret.val = ParseHexDigits(digits, <<0, 0>>).val
            ELSE ret = [kind |-> "err", err |-> ImproperColor]

\* "#ff0000" gives ColorValue(0xff0000).
ColorOfRedReached ==
    /\ ColorCalled
    /\ call.value = <<"#", "f", "f", "0", "0", "0", "0">>
    /\ ret = [kind |-> "ok", variant |-> "ColorValue", val |-> <<255, 0>>]

\* What the variable of an arm holds after the pass: the conversion of the
\* value of the last attribute of that name, None when there is none.
AfterPass(arm) ==
    LET v == AttrValue(call.attrs, arm.name)
    IN  IF v.some THEN Convert(arm.conv, v.val) ELSE None

\* C15: get_attrs! returns the caller's error exactly when, after the pass,
\* the variable of some required name is unset (no such attribute, or its
\* conversion gave None); an optional that is absent or fails to convert is
\* returned as None and causes no error; on success every required value is
\* the converted value.
C15_ErrorIffRequiredUnset ==
    Called("get_attrs!") =>
        LET opt == call.optionals
            req == call.required
        IN  /\ ret.kind = "err" <=> \E i \in 1 .. Len(req) : ~AfterPass(req[i]).some
            /\ ret.kind = "err" => ret.err = call.err
            /\ ret.kind = "ok" =>
                  /\ \A i \in 1 .. Len(opt) : ret.optionals[i] = AfterPass(opt[i])
                  /\ \A i \in 1 .. Len(req) : Some(ret.required[i]) = AfterPass(req[i])

\* The required are there and the optional does not convert: no error, and
\* the optional comes back as None.
C15_Witness ==
    /\ Called("get_attrs!")
    /\ call.attrs = <<<<"o", "x">>, <<"a", "1">>, <<"b", "x">>>>
    /\ Len(call.required) = 2
    /\ ret.kind = "ok"
    /\ ret.optionals = <<None>>
    /\ ret.required = <<1, "x">>

\* C17: convert_to_tile completes for every buffer and every width: a short
\* last row or a width of 0 does not make it read outside the buffer or abort.
C17_ConvertToTileCompletes ==
    Called("convert_to_tile") => ret.kind = "ok"

\* convert_to_tile completes when the width is not 0 and the length of the
\* buffer is a multiple of width * 4, and aborts in every other case.
ConvertToTileAbortsOtherwise ==
    Called("convert_to_tile") =>
        (ret.kind = "ok" <=>
            call.width # 0 /\ Len(call.all) % (call.width * 4) = 0)

----------------------------------------------------------------------------
(* Specifications *)

Init == ParseInit /\ GidIdle /\ TileIdle /\ CallsIdle
Next ==
    \/ ParseImplStep
    \/ NewExternalStep
    \/ DispatchStep
    \/ ParseBase64Step
    \/ DecodeCsvStep
Spec == Init /\ [][Next]_vars
\* The parser is one thread: it takes its next step whenever it has one.
LiveSpec == Spec /\ WF_vars(Next)

InitGid == GidInit /\ TileIdle /\ ParseIdle /\ CallsIdle
NextGid == GidScanStep \/ GidReturn
SpecGid == InitGid /\ [][NextGid]_vars

InitTile == TileInit /\ GidIdle /\ ParseIdle /\ CallsIdle
NextTile == TileNew
SpecTile == InitTile /\ [][NextTile]_vars

InitCalls ==
    /\ ConvertToTileInit \/ DecodeCsvInit \/ PropertyValueNewInit \/ GetAttrsInit
    /\ GidIdle /\ TileIdle /\ ParseIdle
NextCalls ==
    \/ ConvertToTileCall
    \/ DecodeCsvCharacters
    \/ PropertyValueNewCall
    \/ GetAttrsCall
SpecCalls == InitCalls /\ [][NextCalls]_vars

====
